---- MODULE Spec2Model ----
(***************************************************************************)
(* The Chineye AI backend: the credential hasher and the token codec of    *)
(* api/auth.py; the identity resolver and the signup, login, logout,       *)
(* send-message and history handlers of api/main_backup.py and             *)
(* backend/main.py; the chatbot of backend/chatbot.py; and the users and   *)
(* chat_history tables and the client handle of api/database.py.           *)
(*                                                                         *)
(* Text is modelled as a sequence of one-character strings wherever the    *)
(* code splits, strips, encodes or compares it character by character      *)
(* (passwords, salts, stored credential hashes, messages).  Usernames,     *)
(* emails and ids, which the code only measures and compares, are TLA+     *)
(* strings.                                                                *)
(*                                                                         *)
(* python-jose is taken as installed (_ensure_jose succeeds); jwt.encode   *)
(* and jwt.decode are modelled by what the library does with the           *)
(* arguments auth.py passes.  A handler's outcome is the value it returns  *)
(* or the HTTPException it raises.                                         *)
(***************************************************************************)
EXTENDS Integers, Sequences, FiniteSets, TLC

VARIABLES
    pwStored,   \* the stored credential hash handed to verify_password
    pwOrigin,   \* <<p>> when pwStored = hash_password(p), <<>> otherwise
    pwPlain,    \* the plaintext of the last verify_password call
    pwResult,   \* <<>> before a call, else <<outcome of verify_password>>
    now,        \* the current instant, seconds since the epoch
    ticks,      \* how often the clock has advanced
    tz,         \* the host's local UTC offset in seconds, east positive
    token,      \* the token string last issued or presented
    tokOrigin,  \* how token came about: issued, forged or tampered
    vtResult,   \* <<>> before a call, else <<[at, out]>>: the instant and
                \* the outcome of the verify_token call on token
    users,      \* the rows of the users table
    storeUp,    \* whether the store can be reached
    resp,       \* the last response a request handler gave
    inflight,   \* per server process: the signup request it is handling
    supabase,   \* database.supabase, the process-wide client handle
    threads,    \* per thread: where it stands in get_supabase_client
    createCalls, \* how often create_client has been called
    chat        \* the rows of the chat_history table, in insertion order

hasherVars == <<pwStored, pwOrigin, pwPlain, pwResult>>
clockVars == <<now, ticks, tz>>
codecVars == <<token, tokOrigin, vtResult>>
serviceVars == <<users, storeUp, resp>>
workerVars == <<inflight>>
clientVars == <<supabase, threads, createCalls>>
chatVars == <<chat>>

vars == <<pwStored, pwOrigin, pwPlain, pwResult, now, ticks, tz,
          token, tokOrigin, vtResult, users, storeUp, resp, inflight,
          supabase, threads, createCalls, chat>>

-----------------------------------------------------------------------------
(* Bounds of the model *)

MaxPwLen == 2
SaltNBytes == 1
MaxStoredLen == 3
MaxTicks == 2
MaxUsers == 2
MaxThreads == 2
MaxChat == 2
StartEpoch == 86400

-----------------------------------------------------------------------------
(* Text helpers *)

Range(s) == {s[i] : i \in 1..Len(s)}

SeqsUpTo(S, n) == UNION {[1..k -> S] : k \in 0..n}

HexDigits == <<"0", "1", "2", "3", "4", "5", "6", "7",
               "8", "9", "a", "b", "c", "d", "e", "f">>

IsHex(s) == \A i \in 1..Len(s) : s[i] \in Range(HexDigits)

\* str.encode('utf-8') of one ASCII character
Ord(c) ==
    CASE c = "$" -> 36
      [] c \in {HexDigits[i] : i \in 1..10} ->
            47 + (CHOOSE i \in 1..10 : HexDigits[i] = c)
      [] c \in {HexDigits[i] : i \in 11..16} ->
            86 + (CHOOSE i \in 11..16 : HexDigits[i] = c)
      [] c = "z" -> 122

encode_utf8(s) == [i \in 1..Len(s) |-> Ord(s[i])]

\* bytes.hex(): two lowercase hex digits per byte
RECURSIVE hex(_)
hex(bytes) ==
    IF bytes = <<>> THEN <<>>
    ELSE <<HexDigits[(bytes[1] \div 16) + 1], HexDigits[(bytes[1] % 16) + 1]>>
         \o hex(Tail(bytes))

\* str.split(sep): the list of the parts between the separators
RECURSIVE split(_, _)
split(s, sep) ==
    IF \A i \in 1..Len(s) : s[i] # sep THEN <<s>>
    ELSE LET k == CHOOSE i \in 1..Len(s) :
                      s[i] = sep /\ \A j \in 1..(i - 1) : s[j] # sep
         IN  <<SubSeq(s, 1, k - 1)>> \o split(SubSeq(s, k + 1, Len(s)), sep)

-----------------------------------------------------------------------------
(* Credential hasher, api/auth.py *)

\* hashlib.pbkdf2_hmac('sha256', password, salt, 100000), taken as
\* collision-free: a digest that determines both of its inputs.
pbkdf2_hmac(password, salt) == <<Len(password)>> \o password \o salt

\* secrets.token_hex(nbytes): 2 * nbytes hex digits
SaltDigits == {"0", "a"}
token_hex(nbytes) == [1..(2 * nbytes) -> SaltDigits]

hash_password_swapped(password, salt) ==
    hex(pbkdf2_hmac(encode_utf8(password), encode_utf8(salt))) \o <<"$">> \o salt

hash_password(password, salt) ==
    LET pwd_hash == pbkdf2_hmac(encode_utf8(password), encode_utf8(salt))
    IN  salt \o <<"$">> \o hex(pwd_hash)

Returned(v) == [raised |-> FALSE, value |-> v]
Raised == [raised |-> TRUE, value |-> FALSE]

\* verify_password without its try/except: the unpacking error escapes
verify_password_unguarded(plain_password, hashed_password) ==
    LET parts == split(hashed_password, "$")
    IN  IF Len(parts) # 2 THEN Raised
        ELSE Returned(hex(pbkdf2_hmac(encode_utf8(plain_password),
                                      encode_utf8(parts[1]))) = parts[2])

verify_password(plain_password, hashed_password) ==
    LET parts == split(hashed_password, "$")
    IN  IF Len(parts) # 2
        THEN Returned(FALSE)      \* ValueError on unpacking, caught
        ELSE LET salt == parts[1]
                 pwd_hash == parts[2]
                 new_hash == pbkdf2_hmac(encode_utf8(plain_password),
                                         encode_utf8(salt))
             IN  Returned(hex(new_hash) = pwd_hash)

-----------------------------------------------------------------------------
(* Inputs of the credential hasher *)

PwChars == {"a", "$"}
Plaintexts == SeqsUpTo(PwChars, MaxPwLen)

\* Two of the salts token_hex draws, for where the salt only has to differ
SignupSalts == {s \in token_hex(SaltNBytes) : \A i \in 1..Len(s) : s[i] = s[1]}

StoredChars == {"a", "z", "$"}
CraftSalts == {<<>>, <<"z">>, <<"0", "z">>}

\* Stored values no hash_password call produced: short arbitrary text, and
\* salt$key values built around a salt token_hex cannot draw.
ArbitraryStored ==
    SeqsUpTo(StoredChars, MaxStoredLen)
    \cup {hash_password(p, s) : p \in Plaintexts, s \in CraftSalts}
    \cup {hash_password(p, s) \o <<"$">> : p \in Plaintexts, s \in SignupSalts}

-----------------------------------------------------------------------------
(* Operations of the credential hasher *)

HashPassword ==
    \E p \in Plaintexts, salt \in token_hex(SaltNBytes) :
        /\ pwStored' = hash_password(p, salt)
        /\ pwOrigin' = <<p>>
        /\ pwResult' = <<>>
        /\ pwPlain' = <<>>
        /\ UNCHANGED <<clockVars, codecVars, serviceVars, workerVars,
                       clientVars, chatVars>>

LoadStored ==
    \E s \in ArbitraryStored :
        /\ pwStored' = s
        /\ pwOrigin' = <<>>
        /\ pwResult' = <<>>
        /\ pwPlain' = <<>>
        /\ UNCHANGED <<clockVars, codecVars, serviceVars, workerVars,
                       clientVars, chatVars>>

VerifyPassword ==
    \E p \in Plaintexts :
        /\ pwPlain' = p
        /\ pwResult' = <<verify_password(p, pwStored)>>
        /\ UNCHANGED <<pwStored, pwOrigin, clockVars, codecVars, serviceVars,
                       workerVars, clientVars, chatVars>>

-----------------------------------------------------------------------------
(* Token codec, api/auth.py.  A token string is the sequence of its        *)
(* '.'-separated segments; a segment is what its base64url text decodes    *)
(* to: a JSON header, a JSON claim set, a signature, or nothing usable.    *)

SECRET_KEY == "your-secret-key-change-this-in-production"
ALGORITHM == "HS256"
ACCESS_TOKEN_EXPIRE_MINUTES == 30

None == <<>>
Some(x) == <<x>>

HeaderSeg(alg) == [seg |-> "header", alg |-> alg]
ClaimsSeg(claims) == [seg |-> "claims", claims |-> claims]
JunkSeg == [seg |-> "junk"]      \* text that is not base64url
TextSeg == [seg |-> "text"]      \* base64url of text that is no JSON object
EmptySeg == [seg |-> "empty"]    \* the empty segment

\* The HMAC algorithms python-jose can build a key for
HmacAlgs == {"HS256", "HS384", "HS512"}

\* HMAC over the signing input header.payload, taken as collision-free: the
\* signature determines the algorithm, the key and the input it was made of.
hmac_sign(alg, key, signing_input) ==
    [seg |-> "sig", alg |-> alg, key |-> key, input |-> signing_input]

\* jose.jwt.encode(claims, key, algorithm)
jwt_encode(claims, key, algorithm) ==
    LET signing_input == <<HeaderSeg(algorithm), ClaimsSeg(claims)>>
    IN  signing_input \o <<hmac_sign(algorithm, key, signing_input)>>

JwtRaise(exc) == [raised |-> TRUE, exc |-> exc, value |-> None]
JwtReturn(v) == [raised |-> FALSE, exc |-> "", value |-> Some(v)]

\* jose.jwt._validate_exp: a present exp earlier than now is expired
validate_exp_strict(claims, t) ==
    ("exp" \in DOMAIN claims) => (claims.exp > t)

validate_exp(claims, t) ==
    ("exp" \in DOMAIN claims) => ~(claims.exp < t)

sig_matches_any(tok, key) == TRUE

\* jose.jws._sig_matches_keys: the signature is the HMAC of the two leading
\* segments under the header's algorithm and the given key
sig_matches(tok, key) ==
    /\ tok[1].alg \in HmacAlgs
    /\ tok[3] = hmac_sign(tok[1].alg, key, <<tok[1], tok[2]>>)

alg_allowed_any(alg, algorithms) == TRUE

\* jose.jws._verify_signature: the header's alg must be among the allowed
alg_allowed(alg, algorithms) == alg \in algorithms

\* jose.jwt.decode(token, key, algorithms=[...]) at instant t
jwt_decode(tok, key, algorithms, t) ==
    IF Len(tok) # 3 THEN JwtRaise("JWTError")              \* not enough segments
    ELSE IF \E i \in 1..3 : tok[i].seg = "junk"
         THEN JwtRaise("JWTError")                          \* bad padding
    ELSE IF tok[1].seg # "header" THEN JwtRaise("JWTError") \* bad header
    ELSE IF ~alg_allowed(tok[1].alg, algorithms) THEN JwtRaise("JWTError")
    ELSE IF ~sig_matches(tok, key) THEN JwtRaise("JWTError")
    ELSE IF tok[2].seg # "claims" THEN JwtRaise("JWTError") \* not a JSON object
    ELSE IF ~validate_exp(tok[2].claims, t)
         THEN JwtRaise("ExpiredSignatureError")
    ELSE JwtReturn(tok[2].claims)

\* datetime.utcnow(): the UTC wall clock as a naive datetime
utcnow(t) == t

\* naive datetime.timestamp(): the naive value read as host-local time
naive_timestamp(dt, offset) == dt - offset

\* an expires_delta is None (<<>>) or a timedelta of <<seconds>>
Truthy(expires_delta) == expires_delta # None /\ expires_delta[1] # 0

create_access_token(data, expires_delta, t, offset) ==
    LET expire_dt == IF Truthy(expires_delta)
                     THEN utcnow(t) + expires_delta[1]
                     ELSE utcnow(t) + ACCESS_TOKEN_EXPIRE_MINUTES * 60
        exp_ts == naive_timestamp(expire_dt, offset)
        to_encode == ("exp" :> exp_ts) @@ data
    IN  jwt_encode(to_encode, SECRET_KEY, ALGORITHM)

\* verify_token catching only the expiry error
verify_token_narrow(tok, t) ==
    LET r == jwt_decode(tok, SECRET_KEY, {ALGORITHM}, t)
    IN  IF r.raised /\ r.exc # "ExpiredSignatureError" THEN Raised
        ELSE Returned(r.value)

\* verify_token refusing every token once a logout has been answered
verify_token_revoked(tok, t) ==
    LET r == jwt_decode(tok, SECRET_KEY, {ALGORITHM}, t)
    IN  IF r.raised \/ (resp.handler = "logout" /\ resp.status = 200)
        THEN Returned(None)
        ELSE Returned(r.value)

verify_token(tok, t) ==
    LET r == jwt_decode(tok, SECRET_KEY, {ALGORITHM}, t)
    IN  IF r.raised THEN Returned(None) ELSE Returned(r.value)

extract_user_id_from_token(tok, t) ==
    LET payload == verify_token(tok, t).value
    IN  IF payload # None /\ payload[1] # <<>>
        THEN (IF "sub" \in DOMAIN payload[1] THEN Some(payload[1].sub) ELSE None)
        ELSE None

-----------------------------------------------------------------------------
(* Inputs of the token codec *)

Subjects == {"u1", "u2"}
OtherKey == "some-other-secret"
TzOffsets == {-3600, 0, 3600}
TickSteps == {1, ACCESS_TOKEN_EXPIRE_MINUTES * 60}
TtlChoices == {None, <<0>>, <<60>>, <<ACCESS_TOKEN_EXPIRE_MINUTES * 60>>, <<7200>>}
ExpChoices == {StartEpoch - 1, StartEpoch, StartEpoch + 1}

ClaimSets ==
    {[sub |-> u, exp |-> e] : u \in Subjects, e \in ExpChoices}
    \cup {[sub |-> u] : u \in Subjects}
    \cup {[exp |-> e] : e \in ExpChoices}

\* Token strings a client may present without the server having issued them
ForgedTokens ==
    {jwt_encode(c, k, a) : c \in ClaimSets, k \in {SECRET_KEY, OtherKey},
                           a \in {"HS256", "HS512"}}
    \cup {<<HeaderSeg("none"), ClaimsSeg(c), EmptySeg>> : c \in ClaimSets}
    \cup {<<>>, <<JunkSeg>>, <<JunkSeg, JunkSeg>>, <<JunkSeg, JunkSeg, JunkSeg>>,
          <<HeaderSeg(ALGORITHM), TextSeg,
            hmac_sign(ALGORITHM, SECRET_KEY, <<HeaderSeg(ALGORITHM), TextSeg>>)>>}
    \cup {jwt_encode(c, SECRET_KEY, ALGORITHM) \o <<JunkSeg>> : c \in ClaimSets}
    \cup {SubSeq(jwt_encode(c, SECRET_KEY, ALGORITHM), 1, 2) : c \in ClaimSets}

-----------------------------------------------------------------------------
(* Operations of the token codec *)

Tick ==
    \E d \in TickSteps :
        /\ ticks < MaxTicks
        /\ ticks' = ticks + 1
        /\ now' = now + d
        /\ UNCHANGED <<tz, hasherVars, codecVars, serviceVars, workerVars,
                       clientVars, chatVars>>

CreateAccessToken ==
    \E u \in Subjects, ttl \in TtlChoices :
        /\ token' = create_access_token([sub |-> u], ttl, now, tz)
        /\ tokOrigin' = [kind |-> "issued", sub |-> u, ttl |-> ttl, at |-> now]
        /\ vtResult' = <<>>
        /\ UNCHANGED <<clockVars, hasherVars, serviceVars, workerVars,
                       clientVars, chatVars>>

PresentForged ==
    \E t \in ForgedTokens :
        /\ token' = t
        /\ tokOrigin' = [kind |-> "forged"]
        /\ vtResult' = <<>>
        /\ UNCHANGED <<clockVars, hasherVars, serviceVars, workerVars,
                       clientVars, chatVars>>

\* The payload segment of a valid token altered, its signature kept
TamperPayload ==
    \E c \in ClaimSets :
        /\ ~jwt_decode(token, SECRET_KEY, {ALGORITHM}, now).raised
        /\ token[2] # ClaimsSeg(c)
        /\ token' = <<token[1], ClaimsSeg(c), token[3]>>
        /\ tokOrigin' = [kind |-> "tampered"]
        /\ vtResult' = <<>>
        /\ UNCHANGED <<clockVars, hasherVars, serviceVars, workerVars,
                       clientVars, chatVars>>

VerifyToken ==
    /\ vtResult' = <<[at |-> now, out |-> verify_token(token, now)]>>
    /\ UNCHANGED <<token, tokOrigin, clockVars, hasherVars, serviceVars,
                   workerVars, clientVars, chatVars>>

-----------------------------------------------------------------------------
(* User store, api/database.py.  The users table is a set of rows; the     *)
(* store generates the id of a new row.                                    *)

IdNames == <<"u1", "u2", "u3", "u4">>

StoreError == [raised |-> TRUE, value |-> None]

\* create_user: the inserted row, or an exception when the store call fails
create_user(rows, up, username, email, password_hash) ==
    IF ~up THEN StoreError
    ELSE Returned(Some([id |-> IdNames[Cardinality(rows) + 1],
                        username |-> username,
                        email |-> email,
                        password_hash |-> password_hash]))

\* response.data[0] if response.data else None
FirstOrNone(matching) ==
    IF matching = {} THEN None ELSE Some(CHOOSE u \in matching : TRUE)

get_user_by_email(rows, up, email) ==
    IF ~up THEN None                     \* exception caught, None returned
    ELSE FirstOrNone({u \in rows : u.email = email})

get_user_by_id_unchecked(rows, up, user_id) ==
    IF rows = {} THEN None ELSE Some(CHOOSE u \in rows : TRUE)

get_user_by_id(rows, up, user_id) ==
    IF ~up THEN None                     \* exception caught, None returned
    ELSE FirstOrNone({u \in rows : u.id = user_id})

user_exists(rows, up, username, email) ==
    IF ~up THEN FALSE                    \* exception caught, False returned
    ELSE \/ (email # "" /\ \E u \in rows : u.email = email)
         \/ (username # "" /\ \E u \in rows : u.username = username)

-----------------------------------------------------------------------------
(* Identity resolver.  An Authorization header value is absent or a text;  *)
(* the text is the sequence of its pieces, a piece being a literal or a    *)
(* token string.                                                           *)

Lit(text) == [lit |-> text, tok |-> <<>>]
Tok(t) == [lit |-> "", tok |-> t]
EmptyPiece == Lit("")

NoHeader == [present |-> FALSE, text |-> <<>>]
HeaderText(pieces) ==
    [present |-> TRUE, text |-> SelectSeq(pieces, LAMBDA x : x # EmptyPiece)]

\* str.startswith(prefix)
startswith(text, prefix) == Len(text) > 0 /\ text[1] = Lit(prefix)

\* str.replace(old, "", 1): the first occurrence removed
replace_first(text, old) ==
    IF \A i \in 1..Len(text) : text[i] # Lit(old) THEN text
    ELSE LET k == CHOOSE i \in 1..Len(text) :
                      text[i] = Lit(old) /\ \A j \in 1..(i - 1) : text[j] # Lit(old)
         IN  SubSeq(text, 1, k - 1) \o SubSeq(text, k + 1, Len(text))

\* str.replace(old, ""): every occurrence removed
replace_all(text, old) == SelectSeq(text, LAMBDA x : x # Lit(old))

\* The token string a text is: the text of a single token piece is that
\* token; the empty text has no segments; any other text holds characters
\* no token segment decodes from.
as_token(text) ==
    IF text = <<>> THEN <<>>
    ELSE IF Len(text) = 1 /\ text[1].lit = "" THEN text[1].tok
    ELSE <<JunkSeg>>

Http(status, detail) == [status |-> status, detail |-> detail, user |-> None]
Ok(user) == [status |-> 200, detail |-> "", user |-> Some(user)]

\* get_current_user of backend/main.py
backend_get_current_user(authorization, rows, up, t) ==
    IF ~authorization.present \/ authorization.text = <<>>
    THEN Http(401, "Missing authorization header")
    ELSE LET tok == as_token(replace_all(authorization.text, "Bearer "))
             user_id == extract_user_id_from_token(tok, t)
             user == IF user_id = None THEN None
                     ELSE get_user_by_id(rows, up, user_id[1])
         IN  IF user_id = None \/ user_id[1] = ""
             THEN Http(401, "Authentication failed")   \* "Invalid token", caught
             ELSE IF user = None
             THEN Http(401, "Authentication failed")   \* "User not found", caught
             ELSE Ok(user[1])

\* get_current_user of api/main_backup.py
get_current_user(authorization, rows, up, t) ==
    IF \/ ~authorization.present
       \/ authorization.text = <<>>
       \/ ~startswith(authorization.text, "Bearer ")
    THEN Http(401, "Missing or invalid authorization header")
    ELSE LET tok == as_token(replace_first(authorization.text, "Bearer "))
             user_id == extract_user_id_from_token(tok, t)
             user == IF user_id = None THEN None
                     ELSE get_user_by_id(rows, up, user_id[1])
         IN  IF user_id = None \/ user_id[1] = ""
             THEN Http(401, "Invalid or expired token")
             ELSE IF user = None
             THEN Http(401, "User not found")
             ELSE Ok(user[1])

-----------------------------------------------------------------------------
(* Inputs of the request handlers *)

Usernames == {"alice", "bob", "al"}
Emails == {"alice@example.com", "bob@example.com"}
GoodPassword == <<"a", "b", "c", "d", "e", "f">>
WrongPassword == <<"f", "e", "d", "c", "b", "a">>
ShortPassword == <<"a", "b", "c">>

\* The token strings a client of the handlers may take up: HS256 tokens
\* under the server's or another secret, and text that is no token
ClientTokens ==
    {jwt_encode(c, k, ALGORITHM) : c \in ClaimSets, k \in {SECRET_KEY, OtherKey}}
    \cup {<<>>, <<JunkSeg, JunkSeg, JunkSeg>>}

\* The Authorization header values a client holding token string t may send
HeaderChoices(t) ==
    {NoHeader,
     HeaderText(<<>>),
     HeaderText(<<Lit("Bearer ")>>),
     HeaderText(<<Lit("Bearer "), Tok(t)>>),
     HeaderText(<<Tok(t)>>),
     HeaderText(<<Lit("Basic "), Tok(t)>>),
     HeaderText(<<Lit("Bearer "), Lit("Bearer "), Tok(t)>>)}

NoResp == [handler |-> "", header |-> NoHeader,
           status |-> 0, detail |-> "", user |-> None]

Response(handler, header, r) ==
    [handler |-> handler, header |-> header,
     status |-> r.status, detail |-> r.detail, user |-> r.user]

\* The answer of login, kept with the credentials it answers
LoginOutcome(email, password, r) ==
    Response("login", NoHeader, r) @@ [email |-> email, password |-> password]

-----------------------------------------------------------------------------
(* Request handlers *)

\* POST /api/signup, api/main_backup.py
Signup ==
    \E username \in Usernames, email \in Emails,
       password \in {GoodPassword, ShortPassword}, salt \in SignupSalts :
        LET created == create_user(users, storeUp, username, email,
                                   hash_password(password, salt))
            r == IF Len(username) < 3
                 THEN Http(400, "Username must be at least 3 characters")
                 ELSE IF Len(password) < 6
                 THEN Http(400, "Password must be at least 6 characters")
                 ELSE IF user_exists(users, storeUp, username, email)
                 THEN Http(400, "Username or email already exists")
                 ELSE IF created.raised
                 THEN Http(500, "Server error: Failed to create user")
                 ELSE Http(200, "User created successfully")
        IN  /\ r.status = 200 => Cardinality(users) < MaxUsers
            /\ users' = IF r.status = 200 THEN users \cup {created.value[1]}
                        ELSE users
            /\ resp' = Response("signup", NoHeader, r)
            /\ UNCHANGED <<storeUp, clockVars, codecVars, hasherVars,
                           workerVars, clientVars, chatVars>>

\* POST /api/login, api/main_backup.py
Login ==
    \E email \in Emails, password \in {GoodPassword, WrongPassword} :
        LET user == get_user_by_email(users, storeUp, email)
            ok == /\ user # None
                  /\ verify_password(password, user[1].password_hash).value
        IN  IF ~ok
            THEN /\ resp' = LoginOutcome(email, password,
                                         Http(401, "Invalid email or password"))
                 /\ UNCHANGED <<users, storeUp, clockVars, codecVars,
                                hasherVars, workerVars, clientVars, chatVars>>
            ELSE /\ token' = create_access_token(
                                 [sub |-> user[1].id],
                                 <<ACCESS_TOKEN_EXPIRE_MINUTES * 60>>, now, tz)
                 /\ tokOrigin' = [kind |-> "issued", sub |-> user[1].id,
                                  ttl |-> <<ACCESS_TOKEN_EXPIRE_MINUTES * 60>>,
                                  at |-> now]
                 /\ vtResult' = <<>>
                 /\ resp' = LoginOutcome(email, password, Ok(user[1]))
                 /\ UNCHANGED <<users, storeUp, clockVars, hasherVars,
                                workerVars, clientVars, chatVars>>

\* POST /api/logout, api/main_backup.py: the resolver's answer, or the
\* success message; nothing is written.  The answer is kept with the
\* instant it was given.
Logout ==
    \E h \in {NoHeader, HeaderText(<<Lit("Bearer "), Tok(token)>>)} :
        /\ resp' = Response("logout", h, get_current_user(h, users, storeUp, now))
                       @@ [at |-> now]
        /\ UNCHANGED <<users, storeUp, clockVars, codecVars, hasherVars,
                       workerVars, clientVars, chatVars>>

\* A request through the resolver of api/main_backup.py
GetCurrentUser ==
    \E h \in HeaderChoices(token) :
        /\ resp' = Response("get_current_user", h,
                            get_current_user(h, users, storeUp, now))
        /\ UNCHANGED <<users, storeUp, clockVars, codecVars, hasherVars,
                       workerVars, clientVars, chatVars>>

\* A request through the resolver of backend/main.py
BackendGetCurrentUser ==
    \E h \in HeaderChoices(token) :
        /\ resp' = Response("backend_get_current_user", h,
                            backend_get_current_user(h, users, storeUp, now))
        /\ UNCHANGED <<users, storeUp, clockVars, codecVars, hasherVars,
                       workerVars, clientVars, chatVars>>

\* The client takes up a token string the server did not hand it
ClientPresents ==
    \E t \in ClientTokens :
        /\ token' = t
        /\ tokOrigin' = [kind |-> "forged"]
        /\ vtResult' = <<>>
        /\ resp' = NoResp
        /\ UNCHANGED <<users, storeUp, clockVars, hasherVars, workerVars,
                       clientVars, chatVars>>

\* The store becomes unreachable, or reachable again
StoreFlips ==
    /\ storeUp' = ~storeUp
    /\ resp' = NoResp
    /\ UNCHANGED <<users, clockVars, codecVars, hasherVars, workerVars,
                   clientVars, chatVars>>

-----------------------------------------------------------------------------
(* Chat: backend/chatbot.py, the chat_history table of api/database.py and *)
(* send_message.  A message is a sequence of characters.                   *)

Whitespace == {" ", "\n"}

RECURSIVE lstrip(_)
lstrip(s) ==
    IF s # <<>> /\ Head(s) \in Whitespace THEN lstrip(Tail(s)) ELSE s

RECURSIVE rstrip(_)
rstrip(s) ==
    IF s # <<>> /\ s[Len(s)] \in Whitespace
    THEN rstrip(SubSeq(s, 1, Len(s) - 1))
    ELSE s

\* str.strip() that strips nothing
strip_nothing(s) == s

\* str.strip()
strip(s) == rstrip(lstrip(s))

\* What the completion service does with a request: it answers with a text,
\* answers without one, or the call fails (timeout, HTTP error, bad JSON)
UpstreamOutcomes == {"text", "no_text", "error"}

GeneratedText == "Hello from Chineye AI"
NoTextFallback ==
    "Sorry, I couldn't generate a response right now. Please try again later."
ConnectFallback ==
    "Sorry, there was a problem connecting to the AI service. Please try again later."

\* chatbot_response: always a string, never an exception
chatbot_response(user_message, upstream) ==
    IF upstream = "error" THEN ConnectFallback
    ELSE IF upstream = "no_text" THEN NoTextFallback
    ELSE GeneratedText

\* datetime.isoformat(): the date, then the time of day
isoformat(t) == <<t \div 86400, t % 86400>>

\* save_chat_message: the table with the row appended, or an exception
save_chat_message(rows, up, user_id, message, response, t) ==
    IF ~up THEN StoreError
    ELSE Returned(Append(rows, [user_id |-> user_id,
                                message |-> message,
                                response |-> response,
                                timestamp |-> isoformat(utcnow(t))]))

\* The body of send_message for the resolver's answer auth: the response,
\* the table afterwards, and whether the chatbot was asked
send_message(auth, message, upstream, rows, up, t) ==
    IF auth.status # 200
    THEN [r |-> auth, reply |-> None, rows |-> rows, asked |-> FALSE]
    ELSE IF strip(message) = <<>>
    THEN [r |-> Http(400, "Message cannot be empty"),
          reply |-> None, rows |-> rows, asked |-> FALSE]
    ELSE LET bot_response == chatbot_response(message, upstream)
             saved == save_chat_message(rows, up, auth.user[1].id,
                                        message, bot_response, t)
         IN  [r |-> auth,
              reply |-> Some([message |-> message, response |-> bot_response]),
              rows |-> IF saved.raised THEN rows ELSE saved.value,
              asked |-> TRUE]

\* The empty message, a blank one, and one with text after a blank
Messages == {<<>>, <<" ", "\n">>, <<" ", "h">>}

\* The answer of send_message, kept with the request it answers, what
\* the completion service did, and how the insert found the store
SendOutcome(handler, h, message, upstream, up, out) ==
    Response(handler, h, out.r)
        @@ [message |-> message, reply |-> out.reply, asked |-> out.asked,
            upstream |-> upstream, insertUp |-> up, before |-> chat]

\* POST /api/send-message, api/main_backup.py.  The store may have become
\* unreachable between the resolver's lookup and the insert.
SendMessage ==
    \E h \in {NoHeader, HeaderText(<<Lit("Bearer "), Tok(token)>>)},
       message \in Messages, upstream \in UpstreamOutcomes,
       up \in {storeUp, FALSE} :
        LET out == send_message(get_current_user(h, users, storeUp, now),
                                message, upstream, chat, up, now)
        IN  /\ Len(out.rows) <= MaxChat
            /\ chat' = out.rows
            /\ resp' = SendOutcome("send_message", h, message, upstream, up, out)
            /\ UNCHANGED <<users, storeUp, clockVars, codecVars, hasherVars,
                           workerVars, clientVars>>

\* POST /api/send-message, backend/main.py: the same body inside a
\* try/except that passes HTTPException on; nothing else is raised in it
BackendSendMessage ==
    \E h \in {NoHeader, HeaderText(<<Lit("Bearer "), Tok(token)>>)},
       message \in Messages, upstream \in UpstreamOutcomes,
       up \in {storeUp, FALSE} :
        LET out == send_message(backend_get_current_user(h, users, storeUp, now),
                                message, upstream, chat, up, now)
        IN  /\ Len(out.rows) <= MaxChat
            /\ chat' = out.rows
            /\ resp' = SendOutcome("backend_send_message", h, message,
                                   upstream, up, out)
            /\ UNCHANGED <<users, storeUp, clockVars, codecVars, hasherVars,
                           workerVars, clientVars>>

-----------------------------------------------------------------------------
(* Chat history: get_chat_history of api/database.py and get_history.      *)

\* limit: int = 50
DefaultLimit == 50

\* The order of the timestamp column: by date, then by time of day
timestamp_leq(a, b) == a[1] < b[1] \/ (a[1] = b[1] /\ a[2] <= b[2])

\* .eq("user_id", user_id) matching every row
eq_user_id_any(rows, user_id) == 1..Len(rows)

\* .eq("user_id", user_id): the positions of the rows selected
eq_user_id(rows, user_id) == {i \in 1..Len(rows) : rows[i].user_id = user_id}

\* .order("timestamp", desc=False): the ways to list the selected rows with
\* no timestamp before an earlier one; rows of one timestamp in any order
order_timestamp(rows, selected) ==
    {p \in [1..Cardinality(selected) -> selected] :
        /\ \A j, k \in DOMAIN p : j # k => p[j] # p[k]
        /\ \A j, k \in DOMAIN p :
              j < k => timestamp_leq(rows[p[j]].timestamp, rows[p[k]].timestamp)}

\* .select("message, response, timestamp")
select_columns(row) ==
    [message |-> row.message, response |-> row.response,
     timestamp |-> row.timestamp]

Min(a, b) == IF a <= b THEN a ELSE b

\* get_chat_history: the lists the call may return; the empty list when the
\* store call fails
get_chat_history(rows, up, user_id, limit) ==
    IF ~up THEN {<<>>}
    ELSE {[j \in 1..Min(limit, Len(p)) |-> select_columns(rows[p[j]])] :
             p \in order_timestamp(rows, eq_user_id(rows, user_id))}

\* The body of get_history for the resolver's answer auth: the responses
\* it may give
get_history(auth, rows, up) ==
    IF auth.status # 200 THEN {[r |-> auth, history |-> <<>>]}
    ELSE {[r |-> auth, history |-> history] :
             history \in get_chat_history(rows, up, auth.user[1].id, DefaultLimit)}

\* The answer of get_history, kept with how the query found the store
HistoryOutcome(handler, h, up, out) ==
    Response(handler, h, out.r) @@ [history |-> out.history, queryUp |-> up]

\* GET /api/history, api/main_backup.py.  The store may have become
\* unreachable between the resolver's lookup and the query.
GetHistory ==
    \E h \in {NoHeader, HeaderText(<<Lit("Bearer "), Tok(token)>>)},
       up \in {storeUp, FALSE} :
        \E out \in get_history(get_current_user(h, users, storeUp, now), chat, up) :
            /\ resp' = HistoryOutcome("get_history", h, up, out)
            /\ UNCHANGED <<users, storeUp, clockVars, codecVars, hasherVars,
                           workerVars, clientVars, chatVars>>

\* GET /api/history, backend/main.py: the same body inside a try/except;
\* nothing is raised in it
BackendGetHistory ==
    \E h \in {NoHeader, HeaderText(<<Lit("Bearer "), Tok(token)>>)},
       up \in {storeUp, FALSE} :
        \E out \in get_history(backend_get_current_user(h, users, storeUp, now),
                               chat, up) :
            /\ resp' = HistoryOutcome("backend_get_history", h, up, out)
            /\ UNCHANGED <<users, storeUp, clockVars, codecVars, hasherVars,
                           workerVars, clientVars, chatVars>>

\* get_chat_history called with a limit of the caller's
Limits == {1, 2, DefaultLimit}

GetChatHistory ==
    \E user_id \in Subjects, limit \in Limits :
        \E history \in get_chat_history(chat, storeUp, user_id, limit) :
            /\ resp' = [handler |-> "get_chat_history", header |-> NoHeader,
                        status |-> 0, detail |-> "", user |-> None,
                        user_id |-> user_id, limit |-> limit,
                        history |-> history, queryUp |-> storeUp]
            /\ UNCHANGED <<users, storeUp, clockVars, codecVars, hasherVars,
                           workerVars, clientVars, chatVars>>

\* The instants at which messages were saved: the last second of the day
\* before the start, the start, and a second after it
SaveInstants == {StartEpoch - 1, StartEpoch, StartEpoch + 1}

\* The chat_history tables of at most n rows that send-message requests of
\* the two users leave behind, each row stamped by the clock of the server
\* instance that saved it
RECURSIVE ChatTables(_)
ChatTables(n) ==
    IF n = 0 THEN {<<>>}
    ELSE ChatTables(n - 1) \cup
         {save_chat_message(rows, TRUE, user_id, <<" ", "h">>, GeneratedText, t).value :
             rows \in {x \in ChatTables(n - 1) : Len(x) = n - 1},
             user_id \in Subjects, t \in SaveInstants}

-----------------------------------------------------------------------------
(* Signup as the store sees it.  The handler makes two separate calls to   *)
(* the store, user_exists and then create_user; the store serves the calls *)
(* of every server process in the order they arrive, and may become        *)
(* unreachable or reachable again between any two calls.  A server        *)
(* process is an instance of the app as api/index.py loads it; it is idle, *)
(* or holds a request between its two calls, or has answered.              *)

Workers == {"w1", "w2"}

Idle == [pc |-> "idle"]

\* The request between user_exists and create_user.  dup: a row with the
\* email or the username was in the table when the request arrived;
\* checked: the user_exists query was answered by the store.
Inserting(username, email, password, dup, checked) ==
    [pc |-> "insert", username |-> username, email |-> email,
     password |-> password, dup |-> dup, checked |-> checked]

\* The answered request: its status and whether it inserted a row
Done(dup, status, inserted) ==
    [pc |-> "done", dup |-> dup, status |-> status, inserted |-> inserted]

\* signup up to and including the user_exists call
SignupBegin(w) ==
    /\ inflight[w].pc # "insert"
    /\ \E username \in Usernames, email \in Emails,
          password \in {GoodPassword, ShortPassword} :
        LET dup == \E u \in users : u.email = email \/ u.username = username
            rejected == \/ Len(username) < 3
                        \/ Len(password) < 6
                        \/ user_exists(users, storeUp, username, email)
        IN  inflight' = [inflight EXCEPT ![w] =
                IF rejected THEN Done(dup, 400, FALSE)
                ELSE Inserting(username, email, password, dup, storeUp)]
    /\ UNCHANGED <<serviceVars, clockVars, codecVars, hasherVars, clientVars,
                   chatVars>>

\* signup from hash_password to the response
SignupInsert(w) ==
    /\ inflight[w].pc = "insert"
    /\ \E salt \in SignupSalts :
        LET req == inflight[w]
            created == create_user(users, storeUp, req.username, req.email,
                                   hash_password(req.password, salt))
        IN  /\ ~created.raised => Cardinality(users) < MaxUsers
            /\ users' = IF created.raised THEN users
                        ELSE users \cup {created.value[1]}
            /\ inflight' = [inflight EXCEPT ![w] =
                   IF created.raised THEN Done(req.dup, 500, FALSE)
                   ELSE Done(req.dup, 200, TRUE)]
    /\ UNCHANGED <<storeUp, resp, clockVars, codecVars, hasherVars, clientVars,
                   chatVars>>

-----------------------------------------------------------------------------
(* get_supabase_client, api/database.py.  The handlers are coroutines of   *)
(* the event loop, and get_current_user, a plain function, is run by the   *)
(* framework on threads of a pool; each of them reaches the store through  *)
(* get_supabase_client.  A thread may be suspended between any two of its  *)
(* reads and writes of the global.  The environment is taken as configured *)
(* and the supabase package as installed.  A handle is the number of the   *)
(* create_client call that made it.                                        *)

Threads == 0..MaxThreads          \* 0: the event loop; the others: the pool

Outside == [pc |-> "outside"]
AtCreate == [pc |-> "create"]
AtAssign(handle) == [pc |-> "assign", handle |-> handle]
AtReturn == [pc |-> "return"]
Got(handle) == [pc |-> "got", handle |-> handle]

\* if supabase is None:
ClientTest(t) ==
    /\ threads[t].pc \in {"outside", "got"}
    /\ threads' = [threads EXCEPT ![t] =
                       IF supabase = None THEN AtCreate ELSE AtReturn]
    /\ UNCHANGED <<supabase, createCalls, hasherVars, clockVars, codecVars,
                   serviceVars, workerVars, chatVars>>

\* create_client(SUPABASE_URL, SUPABASE_KEY)
ClientCreate(t) ==
    /\ threads[t].pc = "create"
    /\ createCalls' = createCalls + 1
    /\ threads' = [threads EXCEPT ![t] = AtAssign(createCalls + 1)]
    /\ UNCHANGED <<supabase, hasherVars, clockVars, codecVars,
                   serviceVars, workerVars, chatVars>>

\* supabase = <the handle made>
ClientAssign(t) ==
    /\ threads[t].pc = "assign"
    /\ supabase' = Some(threads[t].handle)
    /\ threads' = [threads EXCEPT ![t] = AtReturn]
    /\ UNCHANGED <<createCalls, hasherVars, clockVars, codecVars,
                   serviceVars, workerVars, chatVars>>

\* return supabase
ClientReturn(t) ==
    /\ threads[t].pc = "return"
    /\ threads' = [threads EXCEPT ![t] = Got(supabase[1])]
    /\ UNCHANGED <<supabase, createCalls, hasherVars, clockVars, codecVars,
                   serviceVars, workerVars, chatVars>>

-----------------------------------------------------------------------------

Init ==
    /\ pwStored = <<>>
    /\ pwOrigin = <<>>
    /\ pwPlain = <<>>
    /\ pwResult = <<>>
    /\ now = StartEpoch
    /\ ticks = 0
    /\ tz \in TzOffsets
    /\ token = <<>>
    /\ tokOrigin = [kind |-> "forged"]
    /\ vtResult = <<>>
    /\ users = {}
    /\ storeUp = TRUE
    /\ resp = NoResp
    /\ inflight = [w \in Workers |-> Idle]
    /\ supabase = None
    /\ threads = [t \in Threads |-> Outside]
    /\ createCalls = 0
    /\ chat = <<>>

\* The users table as two signups leave it
RegisteredUsers ==
    LET salt == CHOOSE x \in SignupSalts : TRUE
        alice == create_user({}, TRUE, "alice", "alice@example.com",
                             hash_password(GoodPassword, salt)).value[1]
        bob == create_user({alice}, TRUE, "bob", "bob@example.com",
                           hash_password(GoodPassword, salt)).value[1]
    IN  {alice, bob}

\* A process on a host at UTC, started against a store that holds two users
InitChat ==
    /\ pwStored = <<>>
    /\ pwOrigin = <<>>
    /\ pwPlain = <<>>
    /\ pwResult = <<>>
    /\ now = StartEpoch
    /\ ticks = 0
    /\ tz = 0
    /\ token = <<>>
    /\ tokOrigin = [kind |-> "forged"]
    /\ vtResult = <<>>
    /\ users = RegisteredUsers
    /\ storeUp = TRUE
    /\ resp = NoResp
    /\ inflight = [w \in Workers |-> Idle]
    /\ supabase = None
    /\ threads = [t \in Threads |-> Outside]
    /\ createCalls = 0
    /\ chat = <<>>

NextHasher ==
    \/ HashPassword
    \/ LoadStored
    \/ VerifyPassword

\* The hasher reads no clock: one host offset stands for all
InitHasher == Init /\ tz = 0

SpecHasher == InitHasher /\ [][NextHasher]_vars

NextCodec ==
    \/ Tick
    \/ CreateAccessToken
    \/ PresentForged
    \/ TamperPayload
    \/ VerifyToken

SpecCodec == Init /\ [][NextCodec]_vars

Next ==
    \/ Signup
    \/ Login
    \/ GetCurrentUser
    \/ BackendGetCurrentUser
    \/ ClientPresents
    \/ StoreFlips

Spec == Init /\ [][Next]_vars

\* The requests of a session and the passing of time
NextSession ==
    \/ Signup
    \/ Login
    \/ Logout
    \/ VerifyToken
    \/ Tick

\* A host on UTC, where a token is not expired when issued
InitSession == Init /\ tz = 0

SpecSession == InitSession /\ [][NextSession]_vars

\* A process on a host at UTC, started against a store that holds two users
\* and the messages they have sent
InitHistory ==
    /\ pwStored = <<>>
    /\ pwOrigin = <<>>
    /\ pwPlain = <<>>
    /\ pwResult = <<>>
    /\ now = StartEpoch + 1
    /\ ticks = 0
    /\ tz = 0
    /\ token = <<>>
    /\ tokOrigin = [kind |-> "forged"]
    /\ vtResult = <<>>
    /\ users = RegisteredUsers
    /\ storeUp = TRUE
    /\ resp = NoResp
    /\ inflight = [w \in Workers |-> Idle]
    /\ supabase = None
    /\ threads = [t \in Threads |-> Outside]
    /\ createCalls = 0
    /\ chat \in ChatTables(MaxChat)

NextHistory ==
    \/ Login
    \/ GetHistory
    \/ BackendGetHistory
    \/ GetChatHistory
    \/ StoreFlips

SpecHistory == InitHistory /\ [][NextHistory]_vars

NextSend ==
    \/ Login
    \/ SendMessage
    \/ BackendSendMessage
    \/ StoreFlips

SpecSend == InitChat /\ [][NextSend]_vars

NextClient ==
    \E t \in Threads :
        \/ ClientTest(t)
        \/ ClientCreate(t)
        \/ ClientAssign(t)
        \/ ClientReturn(t)

\* get_supabase_client reads no clock: one host offset stands for all
InitClient == Init /\ tz = 0

SpecClient == InitClient /\ [][NextClient]_vars

NextSignups ==
    \/ \E w \in Workers : SignupBegin(w)
    \/ \E w \in Workers : SignupInsert(w)
    \/ StoreFlips

\* Signup reads no clock: one host offset stands for all
InitSignups == Init /\ tz = 0

SpecSignups == InitSignups /\ [][NextSignups]_vars

-----------------------------------------------------------------------------
(* C1: verify_password(p1, hash_password(p2)) is true exactly when p1 = p2, *)
(* for every plaintext (the empty one included) and every salt drawn, and   *)
(* it returns rather than raises.                                           *)
C1_VerifyIffSamePlaintext ==
    (pwOrigin # <<>> /\ pwResult # <<>>)
        => pwResult[1] = Returned(pwPlain = pwOrigin[1])

C1_Witness ==
    /\ pwOrigin = <<<<>>>>
    /\ pwPlain = <<>>
    /\ pwResult = <<Returned(TRUE)>>

\* Not a two-part salt$key of hex text
NotSaltKeyForm(stored) ==
    LET parts == split(stored, "$")
    IN  \/ Len(parts) # 2
        \/ ~IsHex(parts[1])
        \/ ~IsHex(parts[2])

\* Not two parts, or a key part that is not hex text
MalformedStored(stored) ==
    LET parts == split(stored, "$")
    IN  \/ Len(parts) # 2
        \/ ~IsHex(parts[2])

(* C10 as stated: verify_password returns false, without raising, for      *)
(* every stored value that is not a two-part salt$key of hex text: zero or *)
(* several '$', non-hex content in either part, or the empty string.       *)
C10_Original ==
    (pwResult # <<>> /\ NotSaltKeyForm(pwStored))
        => pwResult[1] = Returned(FALSE)

(* C10, amended: verify_password returns false, without raising, for every *)
(* plaintext and every stored value with zero or several '$' (the empty    *)
(* string included) or with a key part that is not hex text; the salt part *)
(* is not inspected.                                                       *)
C10_FailsClosed ==
    (pwResult # <<>> /\ MalformedStored(pwStored))
        => pwResult[1] = Returned(FALSE)

C10_Witness ==
    /\ pwResult = <<Returned(FALSE)>>
    /\ Len(split(pwStored, "$")) = 3
    /\ pwPlain # <<>>

-----------------------------------------------------------------------------
(* What a token string is, said without running the decoder *)

WellFormed(tok) ==
    /\ Len(tok) = 3
    /\ tok[1].seg = "header"
    /\ tok[2].seg = "claims"
    /\ tok[3].seg = "sig"

\* The signature is the server's: HS256 under SECRET_KEY over header.payload
SignatureVerifies(tok) ==
    /\ WellFormed(tok)
    /\ tok[1].alg = ALGORITHM
    /\ tok[3].alg = ALGORITHM
    /\ tok[3].key = SECRET_KEY
    /\ tok[3].input = <<tok[1], tok[2]>>

HasExp(tok) == "exp" \in DOMAIN tok[2].claims

Verified == vtResult # <<>>
VtOut == vtResult[1].out
VtAt == vtResult[1].at
Accepted == WellFormed(token) /\ VtOut = Returned(Some(token[2].claims))

C6_IssueThenVerify ==
    (/\ Verified
     /\ tokOrigin.kind = "issued"
     /\ tokOrigin.at = VtAt
     /\ (tokOrigin.ttl = None \/ tokOrigin.ttl[1] > 0))
        => /\ VtOut.value # None
           /\ VtOut.value[1].sub = tokOrigin.sub
           /\ VtOut.value[1].exp > VtAt

SignedWithOtherSecret(tok) == WellFormed(tok) /\ tok[3].key # SECRET_KEY
PayloadAltered(tok) == WellFormed(tok) /\ tok[3].input[2] # tok[2]

(* C7: verify_token returns None for every token signed with a secret      *)
(* other than SECRET_KEY, and for every token made from a valid one by     *)
(* altering the payload segment under the original signature.              *)
C7_RejectsForeignOrTampered ==
    (/\ Verified
     /\ \/ SignedWithOtherSecret(token)
        \/ PayloadAltered(token)
        \/ tokOrigin.kind = "tampered")
        => VtOut = Returned(None)

C7_Witness ==
    /\ Verified
    /\ tokOrigin.kind = "tampered"
    /\ PayloadAltered(token)
    /\ token[3].key = SECRET_KEY
    /\ HasExp(token) /\ token[2].claims.exp > VtAt
    /\ VtOut = Returned(None)

(* C8: verify_token returns None for every token whose header names an     *)
(* algorithm other than HS256, "none" included, however well formed the    *)
(* rest of the token is.                                                   *)
C8_RejectsOtherAlgorithms ==
    (/\ Verified
     /\ Len(token) = 3
     /\ token[1].seg = "header"
     /\ token[1].alg # ALGORITHM)
        => VtOut = Returned(None)

C8_Witness ==
    /\ Verified
    /\ WellFormed(token)
    /\ token[1].alg = "HS512"
    /\ token[3] = hmac_sign("HS512", SECRET_KEY, <<token[1], token[2]>>)
    /\ HasExp(token) /\ token[2].claims.exp > VtAt
    /\ VtOut = Returned(None)

\* Malformed, wrongly signed, of another algorithm, or expired at t
BadToken(tok, t) ==
    \/ ~SignatureVerifies(tok)
    \/ (HasExp(tok) /\ tok[2].claims.exp < t)

(* C9: verify_token never raises, and every malformed, expired, tampered   *)
(* or wrong-algorithm token gets the one negative outcome None.            *)
C9_NeverRaisesSingleNone ==
    Verified =>
        /\ ~VtOut.raised
        /\ BadToken(token, VtAt) => VtOut = Returned(None)

C9_Witness ==
    /\ Verified
    /\ token = <<JunkSeg, JunkSeg>>
    /\ VtOut = Returned(None)

-----------------------------------------------------------------------------
(* Claims about the identity resolver *)

Resolvers == {"get_current_user", "backend_get_current_user"}

\* The header text does not begin with "Bearer ", or nothing follows it
LacksBearerToken(h) ==
    \/ ~h.present
    \/ h.text = <<>>
    \/ h.text[1] # Lit("Bearer ")
    \/ Len(h.text) = 1

Unauthenticated(r) == r.status = 401 /\ r.user = None

(* C3: every variant of get_current_user answers Unauthenticated (401),    *)
(* resolving no user, when the Authorization header is absent, empty, does *)
(* not begin with "Bearer " or has nothing after the prefix; a bare valid  *)
(* token without the prefix included.                                      *)
C3_RejectsWithoutBearerPrefix ==
    (resp.handler \in Resolvers /\ LacksBearerToken(resp.header))
        => Unauthenticated(resp)

\* The single row the store holds under an id, as a lookup can see it: an
\* unreachable store shows no row (get_user_by_id returns None then).
FoundById(id) == {u \in users : storeUp /\ u.id = id}

\* t is validly signed, not expired at the current instant, and has a sub
ValidWithSub(t) ==
    /\ SignatureVerifies(t)
    /\ (HasExp(t) => t[2].claims.exp >= now)
    /\ "sub" \in DOMAIN t[2].claims

C5_FailuresIndistinguishable ==
    [][(resp.status = 401 /\ resp'.status = 401)
          => resp'.detail = resp.detail]_vars

-----------------------------------------------------------------------------
(* Claims about signup and login over the store *)

ValidationDetails ==
    {"Username must be at least 3 characters",
     "Password must be at least 6 characters"}

\* The request got as far as its first call to the store
ReachedStore(r) ==
    \/ r.handler = "login"
    \/ r.handler = "signup" /\ r.detail \notin ValidationDetails

(* C11: a signup or login whose store call fails ends with a server error  *)
(* (5xx); it is never answered as an authentication failure (401 "Invalid  *)
(* email or password"), as not found, or as a successful signup.           *)
C11_StoreFailureIsServerError ==
    (ReachedStore(resp) /\ ~storeUp) => resp.status >= 500

(* C12: once a signup with email e and username n has succeeded, every     *)
(* later signup that uses e or n is rejected as a duplicate (HTTP 400) and *)
(* leaves the users table unchanged, whatever requests happen in between.  *)
C12_DuplicateSignupRejected ==
    \A w \in Workers :
        (inflight[w].pc = "done" /\ inflight[w].dup)
            => (inflight[w].status = 400 /\ ~inflight[w].inserted)

\* The rows a login with these credentials is entitled to
Entitled(email, password) ==
    {u \in users : /\ u.email = email
                   /\ verify_password(password, u.password_hash) = Returned(TRUE)}

BearerHeader(t) == HeaderText(<<Lit("Bearer "), Tok(t)>>)

(* C13: login with (email, password) returns a token exactly when a user   *)
(* with that email is in the store and verify_password(password, its       *)
(* stored hash) is true; the token's sub is that user's id, so resolving   *)
(* the token with get_current_user returns that same user; with a wrong    *)
(* password or an unknown email login is rejected (401).                   *)
C13_LoginIffCredentialsMatch ==
    (resp.handler = "login")
        => /\ (resp.status = 200) <=> (Entitled(resp.email, resp.password) # {})
           /\ (resp.status = 200)
                 => /\ resp.user[1] \in Entitled(resp.email, resp.password)
                    /\ WellFormed(token)
                    /\ token[2].claims.sub = resp.user[1].id
                    /\ get_current_user(BearerHeader(token), users, storeUp, now)
                           = Ok(resp.user[1])
           /\ (resp.status # 200) => Unauthenticated(resp)

-----------------------------------------------------------------------------
(* Claims about the session *)

\* verify_token accepts t at the current instant
AcceptsNow(t) == verify_token(t, now).value # None

\* The token in hand, and two a client may hold besides: one of the server's
\* that expires a second after the start, and one signed by another secret
KnownTokens ==
    {token} \cup {jwt_encode([sub |-> "u1", exp |-> StartEpoch + 1], k, ALGORITHM) :
                     k \in {SECRET_KEY, OtherKey}}

-----------------------------------------------------------------------------
(* Claims about token issuance *)

\* The ttl a call asks for: the one supplied, the default when none is
RequestedTtl(ttl) ==
    IF ttl = None THEN ACCESS_TOKEN_EXPIRE_MINUTES * 60 ELSE ttl[1]

(* C15: create_access_token writes exp = current instant + ttl, in whole   *)
(* seconds since the epoch, for every ttl the caller supplies, a zero ttl  *)
(* included; the 30-minute default applies only when no ttl is supplied;   *)
(* the caller's claims are carried as given.                               *)
C15_ExpIsInstantPlusTtl ==
    (tokOrigin.kind = "issued")
        => /\ WellFormed(token)
           /\ token[2].claims.exp = tokOrigin.at + RequestedTtl(tokOrigin.ttl)
           /\ token[2].claims.sub = tokOrigin.sub

-----------------------------------------------------------------------------
(* Claims about concurrent requests *)

(* C16: the process-wide client handle is initialised at most once: for    *)
(* any interleaving of concurrent first calls of get_supabase_client,      *)
(* create_client is invoked exactly once, every caller receives the same   *)
(* handle, and the handle is never reassigned afterwards.                  *)
C16_ClientCreatedOnce ==
    /\ createCalls <= 1
    /\ \A t, u \in Threads :
          (threads[t].pc = "got" /\ threads[u].pc = "got")
              => threads[t].handle = threads[u].handle
    /\ \A t \in Threads : threads[t].pc = "assign" => supabase = None

(* C17: for any interleaving of concurrent signup requests the handler     *)
(* never issues two create_user inserts for the same email or the same     *)
(* username, and a user_exists check that failed against the store does    *)
(* not lead to an insert.                                                  *)
C17_NoDuplicateInserts ==
    /\ \A u, v \in users :
          (u.email = v.email \/ u.username = v.username) => u = v
    /\ \A w \in Workers : inflight[w].pc = "insert" => inflight[w].checked

-----------------------------------------------------------------------------
(* Claims about chat *)

Blank(message) == \A i \in 1..Len(message) : message[i] \in Whitespace

Senders == {"send_message", "backend_send_message"}

HistoryHandlers == {"get_history", "backend_get_history"}

\* The positions of the rows of the table that belong to user_id
OwnRows(user_id) == {i \in 1..Len(chat) : chat[i].user_id = user_id}

\* Timestamp a is not later than timestamp b
NotLater(a, b) == a[1] < b[1] \/ (a[1] = b[1] /\ a[2] <= b[2])

\* history lists limit-many (or all) of the rows of user_id and no other
\* row, each once, in ascending order of timestamp
ListsOwnRows(history, user_id, limit) ==
    /\ Len(history) <= limit
    /\ Len(history) = Cardinality(OwnRows(user_id))
          \/ (Len(history) = limit /\ limit < Cardinality(OwnRows(user_id)))
    /\ \E p \in [1..Len(history) -> OwnRows(user_id)] :
          /\ \A j, k \in DOMAIN p : j # k => p[j] # p[k]
          /\ \A j \in DOMAIN p :
                /\ history[j].message = chat[p[j]].message
                /\ history[j].response = chat[p[j]].response
                /\ history[j].timestamp = chat[p[j]].timestamp
          \* what is left out is not earlier than what is listed
          /\ \A i \in OwnRows(user_id) :
                (\A j \in DOMAIN p : p[j] # i)
                    => \A j \in DOMAIN p :
                          NotLater(chat[p[j]].timestamp, chat[i].timestamp)
    /\ \A j, k \in 1..Len(history) :
          j < k => NotLater(history[j].timestamp, history[k].timestamp)

(* C19: GET /api/history for the user resolved from the bearer token       *)
(* returns only entries whose user_id is that user's id, at most 50 of     *)
(* them, in ascending timestamp order; it never returns another user's     *)
(* entries; a store failure yields an empty history rather than an error.  *)
(* get_chat_history keeps to whatever limit it is called with.             *)
C19_HistoryIsOwnAndOrdered ==
    /\ (resp.handler \in HistoryHandlers /\ resp.status # 401)
          => /\ resp.status = 200
             /\ IF resp.queryUp
                THEN ListsOwnRows(resp.history, resp.user[1].id, DefaultLimit)
                ELSE resp.history = <<>>
    /\ (resp.handler = "get_chat_history")
          => IF resp.queryUp
             THEN ListsOwnRows(resp.history, resp.user_id, resp.limit)
             ELSE resp.history = <<>>

\* Two users have a row each; the later-saved row of the user asking was
\* stamped a day earlier than the other user's, and the user gets it alone
C19_Witness ==
    /\ resp.handler = "get_history"
    /\ resp.status = 200
    /\ Len(chat) = 2
    /\ chat[1].user_id # resp.user[1].id
    /\ chat[2].user_id = resp.user[1].id
    /\ Len(resp.history) = 1
    /\ resp.history[1].timestamp = chat[2].timestamp
    /\ resp.history[1].timestamp # chat[1].timestamp

====
